---------------------------- MODULE Spec2Model ----------------------------
(***************************************************************************)
(* Bond-spread mean-reversion strategy.                                    *)
(*                                                                         *)
(*   - BayesianBondArbStrategy.update_parameters (the online estimator),   *)
(*     src/src/strategies/bond_arb_strategy.py;                            *)
(*   - backtest_strategy, the entry/exit loop around the estimator that    *)
(*     tests/test_strategies.py and risk/risk_metrics.py import from the   *)
(*     strategy module, which does not define it: its transition rule is   *)
(*     taken from section 4.2 of the specification;                        *)
(*   - BondArbBacktest (the rolling-window backtest),                      *)
(*     src/research/backtesting.py;                                        *)
(*   - StrategyRiskAnalyzer (the trade ledger and the risk statistics),    *)
(*     src/risk/risk_metrics.py; its _compute_skew and _compute_kurtosis,  *)
(*     called but not defined there, are taken from section 4.4 of the     *)
(*     specification, and norm.ppf stays an uninterpreted term.            *)
(*                                                                         *)
(* Observations are integers and every quantity the code computes in       *)
(* floating point is kept as an exact fraction.  A z-score is the quotient *)
(* of an integer and the square root of a fraction, so a comparison of z   *)
(* with a threshold is a comparison of a sign and of two squares.  The     *)
(* variance floor 1e-8 is kept symbolically: a number a*10^8 + b is the    *)
(* pair of its parts, so that no product leaves the integers TLC has.      *)
(***************************************************************************)
EXTENDS Integers, Sequences, FiniteSets, TLC

\* ------------------------------------------------------------------ bounds

\* Longest stream of observations fed to the estimator.
MaxLen == 7
\* Largest window_size and prior_window drawn for a streamed run.
MaxWindow == 3
MaxPrior == 2

\* Observations (spread values) a streamed run draws from.
Vals == {-1, 0, 1}

\* Most rows of a data frame given to the rolling-window backtest, and its
\* largest window.
MaxRows == 5
MaxRollWindow == 4
\* Most rows of each of two data frames backtested side by side, and the
\* spreads they hold.
MaxPairRows == 4
PairVals == {0, 1}

\* How far below 0 the window_size, prior_window and initial_capital go that
\* a caller constructs with.
MaxBelowZero == 1

\* Most trades of a trade list given to the risk analyzer, the profits they
\* carry, and the most reports taken from one analyzer.
MaxTrades == 3
Profits == {-1, 0, 1}
MaxReports == 2

\* --------------------------------------------------------- program constants

\* max(np.var(window_data, ddof=1), 1e-8): the floor is 1 / EpsInv.
EpsInv == 100000000
\* def __init__(self, window_size=40, prior_window=120)
DefaultPriorWindow == 120
\* tests/test_strategies.py
WINDOW_SIZE == 5
ENTRY_THRESHOLD == 2
LONG_EXIT_THRESHOLD == 2
SHORT_EXIT_THRESHOLD == -2
\* TRANSACTION_COST = 0.004, in units of 1 / PriceScale
TRANSACTION_COST == 4
PriceScale == 1000
\* def __init__(self, trades, initial_capital=1e6), and a capital of 1
DefaultCapital == 1000000
Capitals == {1, DefaultCapital}
\* spread = np.zeros(50)
FlatLen == 50
\* np.zeros(10), one shock, np.ones(10)
QuietLen == 10
RecoveryLen == 10
Shock == 3

\* ------------------------------------------------------------------ helpers

RECURSIVE SeqSum(_)
SeqSum(s) == IF s = <<>> THEN 0 ELSE Head(s) + SeqSum(Tail(s))

RECURSIVE SeqSumSq(_)
SeqSumSq(s) == IF s = <<>> THEN 0 ELSE Head(s) * Head(s) + SeqSumSq(Tail(s))

Max(a, b) == IF a >= b THEN a ELSE b

Min(a, b) == IF a <= b THEN a ELSE b

\* Python's slice s[lo:hi] for lo, hi >= 0 (0-based, hi exclusive, an index
\* past the end standing for the end).
Slice(s, lo, hi) ==
    IF Min(hi, Len(s)) <= lo THEN <<>> ELSE SubSeq(s, lo + 1, Min(hi, Len(s)))

\* Sign of p - q * (e * EpsInv + r), for q > 0, e >= 0, without forming the
\* product: p >= q*y iff p \div q >= y.
CmpScaled(p, q, e, r) ==
    LET lo == p \div q
        more == p % q
        d == lo - r
    IN  IF e = 0
        THEN IF d > 0 THEN 1 ELSE IF d < 0 THEN -1 ELSE IF more > 0 THEN 1 ELSE 0
        ELSE LET f == d \div e
                 g == d % e
             IN  IF f > EpsInv THEN 1
                 ELSE IF f < EpsInv THEN -1
                 ELSE IF g > 0 \/ more > 0 THEN 1 ELSE 0

\* ---------------------------------------------------------------- estimator

\* return None, None, None
None == [none |-> TRUE, nan |-> FALSE, N |-> 0, K |-> 0,
         AE |-> 0, A0 |-> 1, BE |-> 0, B0 |-> 0]

\* A prior segment taken from the end of the history, the window included.
GetPriorDataOverlap(h, W, P) == Slice(h, Max(0, Len(h) - P), Len(h))

\* _get_prior_data: history[max(0, n - prior_window - window_size) : n - window_size]
GetPriorData(h, W, P) == Slice(h, Max(0, Len(h) - P - W), Len(h) - W)

\* _get_window_data: history[-window_size:], which is history[0:] for
\* window_size = 0 and history[k:] for window_size = -k < 0.
GetWindowData(h, W) ==
    IF W > 0 THEN Slice(h, Max(0, Len(h) - W), Len(h)) ELSE Slice(h, -W, Len(h))

\* The warm-up test one observation short.
WarmUpShort(h, W) == Len(h) < W + 1

\* The warm-up test of update_parameters, on the history after the append.
WarmUp(h, W) == Len(h) < W + 2

\* The posterior of update_parameters on the history h (the new observation
\* appended, warm-up over).  With m = len(prior_data), S1, S2 its sum and sum
\* of squares, T1, T2 those of the window:
\*   mu0 = S1/m, tau2 = Dp/m^2 with Dp = m*S2 - S1^2          (np.var)
\*   X_bar = T1/W, np.var(ddof=1) = Dw/(W(W-1)) with Dw = W*T2 - T1^2
\*   1/window_var = iv.n/iv.d, or EpsInv when the variance is floored
\*     (Dw = 0: a positive Dw gives a variance >= 1/(W(W-1)) > 1e-8)
\*   sigma_post2 = 1/(W/window_var + 1/tau2) = K/A
\*   mu_post = B/A,   z = (x - mu_post)/sqrt(sigma_post2) = N/sqrt(K*A)
\* where A = AE*EpsInv + A0, B = BE*EpsInv + B0 and N = x*A - B; the EpsInv
\* part of N is Dp*(x*W - T1), which is 0 for a floored (constant) window.
\* tau2 is not floored: for a constant prior segment 1/tau2 is inf (numpy
\* float64 division), sigma_post2 = 1/inf = 0, mu_post = 0*inf = nan and
\* z = nan/0 = nan.  An empty prior segment has mean and variance nan, and a
\* window of fewer than two observations has np.var(ddof=1) = nan, which
\* max(nan, 1e-8) returns: the triple is nan throughout.
Posterior(h, W, P) ==
    LET prior_data == GetPriorData(h, W, P)
        window_data == GetWindowData(h, W)
        x == h[Len(h)]
        m == Len(prior_data)
        S1 == SeqSum(prior_data)
        Dp == m * SeqSumSq(prior_data) - S1 * S1
        n == Len(window_data)
        T1 == SeqSum(window_data)
        Dw == n * SeqSumSq(window_data) - T1 * T1
        iv == IF Dw = 0 THEN [e |-> 1, n |-> 0, d |-> 1]
                        ELSE [e |-> 0, n |-> n * (n - 1), d |-> Dw]
        A0 == n * iv.n * Dp + m * m * iv.d
        B0 == T1 * iv.n * Dp + S1 * m * iv.d
    IN  IF Dp = 0 \/ n < 2
        THEN [none |-> FALSE, nan |-> TRUE, N |-> 0, K |-> 0,
              AE |-> 0, A0 |-> 1, BE |-> 0, B0 |-> 0]
        ELSE [none |-> FALSE, nan |-> FALSE, N |-> x * A0 - B0, K |-> iv.d * Dp,
              AE |-> n * iv.e * Dp, A0 |-> A0, BE |-> T1 * iv.e * Dp, B0 |-> B0]

\* update_parameters(new_spread_value): the history after the call and the
\* triple it returns.
UpdateParameters(hist, W, P, x) ==
    LET h == Append(hist, x)
    IN  [history |-> h,
         ret |-> IF WarmUp(h, W) THEN None ELSE Posterior(h, W, P)]

\* sigma_post > 0 in a returned triple.
SigmaPositive(r) == ~r.none /\ ~r.nan /\ r.K > 0

\* z is a number (neither absent nor nan).
ZDefined(r) == ~r.none /\ ~r.nan

\* Sign of z^2 - t^2 for a defined z and t # 0.
CmpZSq(r, t) == CmpScaled(r.N * r.N, t * t * r.K, r.AE, r.A0)

\* z >= t and z <= t as floating-point comparisons: false for nan.
ZGe(r, t) ==
    /\ ZDefined(r)
    /\ IF t = 0 THEN r.N >= 0
       ELSE IF t > 0 THEN r.N > 0 /\ CmpZSq(r, t) >= 0
       ELSE r.N >= 0 \/ CmpZSq(r, t) <= 0

ZLe(r, t) ==
    /\ ZDefined(r)
    /\ IF t = 0 THEN r.N <= 0
       ELSE IF t < 0 THEN r.N < 0 /\ CmpZSq(r, t) >= 0
       ELSE r.N <= 0 \/ CmpZSq(r, t) <= 0

ZIsZero(r) == ZDefined(r) /\ r.N = 0


\* ------------------------------------------------- position state machine

\* A trade whose profit is taken long whatever its type.
TradeLongOnly(type, entry_index, exit_index, entry_price, exit_price) ==
    [type |-> type, entry_index |-> entry_index, exit_index |-> exit_index,
     entry_price |-> entry_price, exit_price |-> exit_price,
     profit |-> PriceScale * (exit_price - entry_price) - 2 * TRANSACTION_COST]

\* One closed round trip.  Prices are spread values; the profit is kept in
\* units of 1 / PriceScale, the unit of the transaction cost.
Trade(type, entry_index, exit_index, entry_price, exit_price) ==
    [type |-> type, entry_index |-> entry_index, exit_index |-> exit_index,
     entry_price |-> entry_price, exit_price |-> exit_price,
     profit |-> (IF type = "long" THEN PriceScale * (exit_price - entry_price)
                                  ELSE PriceScale * (entry_price - exit_price))
                - 2 * TRANSACTION_COST]

\* The transition closing a long position only strictly above its threshold.
StateMachineStepStrict(pos, e_index, e_price, r, index, price, entry, long_exit, short_exit) ==
    LET stay == [position |-> pos, entry_index |-> e_index,
                 entry_price |-> e_price, emitted |-> <<>>]
        flat(type) == [position |-> "FLAT", entry_index |-> -1, entry_price |-> 0,
                       emitted |-> <<Trade(type, e_index, index, e_price, price)>>]
        open(p) == [position |-> p, entry_index |-> index,
                    entry_price |-> price, emitted |-> <<>>]
    IN  CASE pos = "FLAT" ->
                 IF ZGe(r, entry) THEN open("SHORT")
                 ELSE IF ZLe(r, -entry) THEN open("LONG")
                 ELSE stay
          [] pos = "LONG" -> IF ZDefined(r) /\ ~ZLe(r, long_exit) THEN flat("long") ELSE stay
          [] pos = "SHORT" -> IF ZLe(r, short_exit) THEN flat("short") ELSE stay

\* The transition on one (z, price) pair at observation `index`: the next
\* position with its entry, and the trades the step emits.  A warm-up step
\* (no z) and a nan z satisfy no comparison.
StateMachineStep(pos, e_index, e_price, r, index, price, entry, long_exit, short_exit) ==
    LET stay == [position |-> pos, entry_index |-> e_index,
                 entry_price |-> e_price, emitted |-> <<>>]
        flat(type) == [position |-> "FLAT", entry_index |-> -1, entry_price |-> 0,
                       emitted |-> <<Trade(type, e_index, index, e_price, price)>>]
        open(p) == [position |-> p, entry_index |-> index,
                    entry_price |-> price, emitted |-> <<>>]
    IN  CASE pos = "FLAT" ->
                 IF ZGe(r, entry) THEN open("SHORT")
                 ELSE IF ZLe(r, -entry) THEN open("LONG")
                 ELSE stay
          [] pos = "LONG" -> IF ZGe(r, long_exit) THEN flat("long") ELSE stay
          [] pos = "SHORT" -> IF ZLe(r, short_exit) THEN flat("short") ELSE stay

\* The end of the input closing an open position at the last price.
TradesAtEndClosing(pos, e_index, e_price, closed, last_index, last_price) ==
    IF pos = "FLAT" THEN closed
    ELSE Append(closed, Trade(IF pos = "LONG" THEN "long" ELSE "short",
                              e_index, last_index, e_price, last_price))

\* The trades backtest_strategy returns when the input ends: those closed so
\* far.  An open position is left as it is.
TradesAtEnd(pos, e_index, e_price, closed, last_index, last_price) == closed

\* ------------------------------------------------- rolling-window backtest

\* threshold, as the fraction num/den: the default 1.5, and 1.
Thresholds == {<<3, 2>>, <<1, 1>>}

\* A window of `w` rows that starts at row i and runs ahead of it.
RollingRowsAhead(sp, i, w) == SubSeq(sp, i, IF i + w - 1 <= Len(sp) THEN i + w - 1 ELSE Len(sp))

\* The rows of the trailing window of `w` rows that ends at row i (1-based):
\* rolling(w, min_periods=1).
RollingRows(sp, i, w) == SubSeq(sp, Max(1, i - w + 1), i)

\* rolling(...).mean() at row i, as the fraction num/den.
RollingMean(sp, i, w) ==
    LET rows == RollingRows(sp, i, w)
    IN  [num |-> SeqSum(rows), den |-> Len(rows)]

\* rolling(...).std() at row i: the square root of var_num/var_den (ddof=1),
\* nan on a single row.
RollingStd(sp, i, w) ==
    LET rows == RollingRows(sp, i, w)
        k == Len(rows)
        T1 == SeqSum(rows)
    IN  IF k < 2 THEN [nan |-> TRUE, var_num |-> 0, var_den |-> 1]
        ELSE [nan |-> FALSE, var_num |-> k * SeqSumSq(rows) - T1 * T1,
              var_den |-> k * (k - 1)]

\* BondArbBacktest.__init__
NewBacktest(w, t) ==
    [window |-> w, threshold |-> t, phase |-> "new", spread |-> <<>>,
     rolling_mean |-> <<>>, rolling_std |-> <<>>, row |-> 0, pos |-> 0,
     positions |-> <<>>, pnl |-> <<>>, cum_pnl |-> <<>>]

\* load_data, the file holding the spreads sp in date order.
LoadData(b, sp) ==
    [b EXCEPT !.phase = "loaded",
              !.spread = sp,
              !.rolling_mean = [i \in 1..Len(sp) |-> RollingMean(sp, i, b.window)],
              !.rolling_std = [i \in 1..Len(sp) |-> RollingStd(sp, i, b.window)]]

\* spread - mean, times the mean's denominator.
Excess(mean, x) == mean.den * x - mean.num

\* (|spread - mean|)^2 compared with (threshold * std)^2: its sign.
CmpBand(mean, std, x, t) ==
    LET D == Excess(mean, x)
        l == D * D * t[2] * t[2] * std.var_den
        r == t[1] * t[1] * std.var_num * mean.den * mean.den
    IN  IF l > r THEN 1 ELSE IF l < r THEN -1 ELSE 0

\* spread > upper and spread < lower, with upper, lower = mean +- threshold*std
\* (false when std is nan).
AboveUpper(mean, std, x, t) ==
    ~std.nan /\ Excess(mean, x) > 0 /\ CmpBand(mean, std, x, t) > 0

BelowLower(mean, std, x, t) ==
    ~std.nan /\ Excess(mean, x) < 0 /\ CmpBand(mean, std, x, t) > 0

\* The loop body with the exit falling through to the entry test.
NextPosReopen(pos, mean, std, x, t) ==
    LET closed == IF (pos = 1 /\ Excess(mean, x) >= 0) \/ (pos = -1 /\ Excess(mean, x) <= 0)
                  THEN 0 ELSE pos
    IN  IF closed = 0
        THEN IF AboveUpper(mean, std, x, t) THEN -1
             ELSE IF BelowLower(mean, std, x, t) THEN 1
             ELSE 0
        ELSE closed

\* The body of backtest's loop for a row after the first: the next pos.
NextPos(pos, mean, std, x, t) ==
    IF pos = 0
    THEN IF AboveUpper(mean, std, x, t) THEN -1
         ELSE IF BelowLower(mean, std, x, t) THEN 1
         ELSE 0
    ELSE IF (pos = 1 /\ Excess(mean, x) >= 0) \/ (pos = -1 /\ Excess(mean, x) <= 0)
         THEN 0
         ELSE pos

\* One iteration of backtest's loop, on row b.row (0-based).
BacktestRow(b) ==
    LET i == b.row + 1
        p == IF b.row = 0 THEN b.pos
             ELSE NextPos(b.pos, b.rolling_mean[i], b.rolling_std[i],
                          b.spread[i], b.threshold)
    IN  [b EXCEPT !.phase = "loop", !.row = i, !.pos = p,
                  !.positions = Append(b.positions, p)]

\* df["position"].shift(1).fillna(0) * df["spread"].diff().fillna(0) at row i.
Pnl(positions, sp, i) ==
    IF i = 1 THEN 0 ELSE positions[i - 1] * (sp[i] - sp[i - 1])

\* The columns backtest adds after its loop.
BacktestFinish(b) ==
    LET pnl == [i \in 1..Len(b.spread) |-> Pnl(b.positions, b.spread, i)]
    IN  [b EXCEPT !.phase = "done",
                  !.pnl = pnl,
                  !.cum_pnl = [i \in 1..Len(pnl) |-> SeqSum(SubSeq(pnl, 1, i))]]

\* The sequences over S of 1 to n elements.
SeqsUpTo(S, n) == UNION {[1..k -> S] : k \in 1..n}

\* --------------------------------------------------- strategy risk analyzer

\* An attribute or column that was never assigned, and one holding v.
Unset == [set |-> FALSE, v |-> <<>>]
Series(v) == [set |-> TRUE, v |-> v]

\* The trade lists of at most n trades; the analyzer reads their profit.
TradeSeqs(n) == UNION {[1..k -> [profit : Profits]] : k \in 0..n}

\* A running total taken from the last row back.
CumSumFromEnd(p) == [k \in 1..Len(p) |-> SeqSum(SubSeq(p, k, Len(p)))]

\* Series.cumsum()
CumSum(p) == [k \in 1..Len(p) |-> SeqSum(SubSeq(p, 1, k))]

\* _process_trades: the data frame of the trades and, unless it is empty,
\* cum_profit, equity_curve and returns (a return is the fraction num/den).
ProcessTrades(a) ==
    LET profit == [k \in 1..Len(a.trades) |-> a.trades[k].profit]
        cum == CumSum(profit)
    IN  IF a.trades = <<>>
        THEN [a EXCEPT !.df = [empty |-> TRUE, profit |-> Unset, cum_profit |-> Unset]]
        ELSE [a EXCEPT !.df = [empty |-> FALSE, profit |-> Series(profit),
                               cum_profit |-> Series(cum)],
                       !.equity_curve = Series([k \in 1..Len(cum) |->
                                                   a.initial_capital + cum[k]]),
                       !.returns = Series([k \in 1..Len(profit) |->
                                              [num |-> profit[k],
                                               den |-> a.initial_capital]])]

\* StrategyRiskAnalyzer.__init__
NewAnalyzer(trade_list, capital) ==
    ProcessTrades([trades |-> trade_list, initial_capital |-> capital,
                   df |-> [empty |-> TRUE, profit |-> Unset, cum_profit |-> Unset],
                   equity_curve |-> Unset, returns |-> Unset])

\* What a call left behind: the function that returned or raised, the
\* exception it raised ("" for none) and the value it returned.
NoValue == [kind |-> "none"]
Outcome(call, raised, value) == [call |-> call, raised |-> raised, value |-> value]
NoCall == Outcome("", "", NoValue)

\* What was called: the method of the analyzer and its arguments.
NoConfidence == <<0, 0>>
Request(op, method, c) == [op |-> op, method |-> method, confidence |-> c]
NoRequest == Request("", "", NoConfidence)

\* method and confidence_level a caller may pass: the three methods and a
\* name that is none of them; confidence levels cn/cd, one of them above 1.
Methods == {"historical", "gaussian", "cornish-fisher", "monte-carlo"}
Confidences == {<<1, 2>>, <<3, 4>>, <<95, 100>>, <<3, 2>>}
InvalidMethod == "ValueError: Invalid VaR method"
PercentileRange == "ValueError: Percentiles must be in the range [0, 100]"

\* The numerators of the returns (they share the denominator
\* initial_capital), and the same in ascending order.
Nums(r) == [k \in 1..Len(r) |-> r[k].num]

RECURSIVE SortAsc(_)
SortAsc(s) ==
    IF Len(s) <= 1 THEN s
    ELSE LET r == SortAsc(Tail(s))
             k == Cardinality({i \in 1..Len(r) : r[i] < Head(s)})
         IN  SubSeq(r, 1, k) \o <<Head(s)>> \o SubSeq(r, k + 1, Len(r))

\* np.percentile(a, 100*q[1]/q[2]) of the ascending a, times q[2]: the value
\* at the virtual index (len(a) - 1)*q, interpolated linearly between its
\* neighbours.
Percentile(a, q) ==
    LET h == (Len(a) - 1) * q[1]
        j == h \div q[2]
        f == h % q[2]
    IN  IF f = 0 THEN a[j + 1] * q[2]
        ELSE a[j + 1] * q[2] + f * (a[j + 2] - a[j + 1])

\* The percentile taken at the confidence level itself.
HistoricalVarUpper(a, c) ==
    IF ~a.returns.set THEN Outcome("_historical_var", "AttributeError", NoValue)
    ELSE IF c[1] < 0 \/ c[1] > c[2]
         THEN Outcome("_historical_var", PercentileRange, NoValue)
    ELSE Outcome("_historical_var", "",
                 [kind |-> "number",
                  num |-> Percentile(SortAsc(Nums(a.returns.v)), c),
                  den |-> c[2] * a.initial_capital])

\* _historical_var: np.percentile(self.returns, 100 * (1 - confidence_level)).
HistoricalVar(a, c) ==
    IF ~a.returns.set THEN Outcome("_historical_var", "AttributeError", NoValue)
    ELSE IF c[2] - c[1] < 0 \/ c[2] - c[1] > c[2]
         THEN Outcome("_historical_var", PercentileRange, NoValue)
    ELSE Outcome("_historical_var", "",
                 [kind |-> "number",
                  num |-> Percentile(SortAsc(Nums(a.returns.v)), <<c[2] - c[1], c[2]>>),
                  den |-> c[2] * a.initial_capital])

\* returns.mean() and returns.std() (ddof = 1, nan on a single return):
\* mean = num/den, std = sqrt(var_num/var_den)/scale.
ReturnsMean(r) == [num |-> SeqSum(Nums(r)), den |-> Len(r) * r[1].den]

ReturnsStd(r) ==
    LET p == Nums(r)
        n == Len(p)
    IN  IF n < 2 THEN [nan |-> TRUE, var_num |-> 0, var_den |-> 1, scale |-> r[1].den]
        ELSE [nan |-> FALSE, var_num |-> n * SeqSumSq(p) - SeqSum(p) * SeqSum(p),
              var_den |-> n * (n - 1), scale |-> r[1].den]

\* _parametric_var: mean + std * norm.ppf(1 - confidence_level), kept as the
\* term of its operands.
ParametricVar(a, c) ==
    IF ~a.returns.set THEN Outcome("_parametric_var", "AttributeError", NoValue)
    ELSE Outcome("_parametric_var", "",
                 [kind |-> "gaussian", mean |-> ReturnsMean(a.returns.v),
                  std |-> ReturnsStd(a.returns.v), ppf |-> <<c[2] - c[1], c[2]>>])

\* The sum of the k-th powers of the deviations of p from its mean, times
\* len(p)^k.
RECURSIVE Power(_, _)
Power(x, k) == IF k = 0 THEN 1 ELSE x * Power(x, k - 1)

CentralMoment(p, k) ==
    SeqSum([i \in 1..Len(p) |-> Power(Len(p) * p[i] - SeqSum(p), k)])

\* _compute_skew and _compute_kurtosis: skewness and excess kurtosis of the
\* returns, kept as the central moments they are quotients of (nan when the
\* returns do not vary).
ComputeSkew(a) ==
    LET p == Nums(a.returns.v)
    IN  [nan |-> CentralMoment(p, 2) = 0, m2 |-> CentralMoment(p, 2),
         m3 |-> CentralMoment(p, 3)]

ComputeKurtosis(a) ==
    LET p == Nums(a.returns.v)
    IN  [nan |-> CentralMoment(p, 2) = 0, m2 |-> CentralMoment(p, 2),
         m4 |-> CentralMoment(p, 4)]

\* _cornish_fisher_var: the quantile norm.ppf(1 - confidence_level) adjusted
\* for skew and kurtosis, kept as the term of its operands.
CornishFisherVar(a, c) ==
    IF ~a.returns.set THEN Outcome("_cornish_fisher_var", "AttributeError", NoValue)
    ELSE Outcome("_cornish_fisher_var", "",
                 [kind |-> "cornish-fisher", mean |-> ReturnsMean(a.returns.v),
                  std |-> ReturnsStd(a.returns.v), skew |-> ComputeSkew(a),
                  kurt |-> ComputeKurtosis(a), ppf |-> <<c[2] - c[1], c[2]>>])

\* A dispatch that takes every other name for 'historical'.
ComputeStrategyVarLenient(a, method, c) ==
    IF method = "gaussian" THEN ParametricVar(a, c)
    ELSE IF method = "cornish-fisher" THEN CornishFisherVar(a, c)
    ELSE HistoricalVar(a, c)

\* compute_strategy_var
ComputeStrategyVar(a, method, c) ==
    IF method = "historical" THEN HistoricalVar(a, c)
    ELSE IF method = "gaussian" THEN ParametricVar(a, c)
    ELSE IF method = "cornish-fisher" THEN CornishFisherVar(a, c)
    ELSE Outcome("compute_strategy_var", InvalidMethod, NoValue)

\* compute_strategy_cvar: the mean of the returns at or below the historical
\* VaR (nan if there is none).
ComputeStrategyCvar(a, c) ==
    LET var == ComputeStrategyVar(a, "historical", c)
    IN  IF var.raised # "" THEN var
        ELSE LET p == Nums(a.returns.v)
                 tail == {k \in 1..Len(p) : p[k] * c[2] <= var.value.num}
                 total == SeqSum([k \in 1..Len(p) |-> IF k \in tail THEN p[k] ELSE 0])
             IN  Outcome("compute_strategy_cvar", "",
                         IF tail = {} THEN [kind |-> "nan"]
                         ELSE [kind |-> "number", num |-> total,
                               den |-> Cardinality(tail) * a.initial_capital])

\* np.maximum.accumulate
RunningMax(e) ==
    [k \in 1..Len(e) |-> CHOOSE m \in {e[j] : j \in 1..k} : \A j \in 1..k : e[j] <= m]

\* (equity - running_max) / running_max in floating point, as num/den with
\* den >= 0: 0/0 is nan, a negative number over 0 is -inf (den = 0).
DrawdownAt(e, m) ==
    IF m = 0 /\ e = m THEN [nan |-> TRUE, num |-> 0, den |-> 1]
    ELSE IF m < 0 THEN [nan |-> FALSE, num |-> m - e, den |-> -m]
    ELSE [nan |-> FALSE, num |-> e - m, den |-> m]

\* drawdown < 0, and x < y for two drawdowns (false on nan).
DdNegative(d) == ~d.nan /\ d.num < 0
DdLess(x, y) == ~x.nan /\ ~y.nan /\ x.num * y.den < y.num * x.den

\* Series.min(): the least value that is not nan, nan if there is none.
SeriesMin(d) ==
    LET nums == {k \in 1..Len(d) : ~d[k].nan}
    IN  IF nums = {} THEN [nan |-> TRUE, num |-> 0, den |-> 1]
        ELSE d[CHOOSE k \in nums : \A j \in nums : ~DdLess(d[j], d[k])]

\* _compute_drawdown_duration: (drawdowns < 0).mean(), as num/den.
ComputeDrawdownDuration(d) ==
    IF Len(d) > 0
    THEN [num |-> Cardinality({k \in 1..Len(d) : DdNegative(d[k])}), den |-> Len(d)]
    ELSE [num |-> 0, den |-> 1]

\* The pairs np.diff((drawdowns < 0).astype(int)) == 1 marks.
DiffIsOne(d) ==
    {k \in 1..(Len(d) - 1) : ~DdNegative(d[k]) /\ DdNegative(d[k + 1])}

\* _compute_recovery_time: the mean of that mark over the pairs, as num/den.
ComputeRecoveryTime(d) ==
    IF Len(d) - 1 > 0
    THEN [num |-> Cardinality(DiffIsOne(d)), den |-> Len(d) - 1]
    ELSE [num |-> 0, den |-> 1]

\* The drawdowns compute_trade_drawdowns works on.
Drawdowns(e) == [k \in 1..Len(e) |-> DrawdownAt(e[k], RunningMax(e)[k])]

\* compute_trade_drawdowns
ComputeTradeDrawdowns(a) ==
    IF ~a.equity_curve.set
    THEN Outcome("compute_trade_drawdowns", "AttributeError", NoValue)
    ELSE LET d == Drawdowns(a.equity_curve.v)
         IN  Outcome("compute_trade_drawdowns", "",
                     [kind |-> "drawdowns", drawdowns |-> d,
                      max_drawdown |-> SeriesMin(d),
                      drawdown_duration |-> ComputeDrawdownDuration(d),
                      recovery_time |-> ComputeRecoveryTime(d)])

\* clip(lower=0).sum() / -clip(upper=0).sum() on float profits: a quotient,
\* or gains over -0.0, which is -inf for gains > 0 and nan for gains = 0.
ProfitFactor(p) ==
    LET gains == SeqSum([k \in 1..Len(p) |-> IF p[k] > 0 THEN p[k] ELSE 0])
        losses == -SeqSum([k \in 1..Len(p) |-> IF p[k] < 0 THEN p[k] ELSE 0])
    IN  IF losses > 0 THEN [kind |-> "number", num |-> gains, den |-> losses]
        ELSE IF gains > 0 THEN [kind |-> "-inf"]
        ELSE [kind |-> "nan"]

\* (profit > 0).mean()
WinRate(p) == [kind |-> "number", num |-> Cardinality({k \in 1..Len(p) : p[k] > 0}),
               den |-> Len(p)]

\* confidence_level = 0.95
ReportConfidence == <<95, 100>>

\* generate_risk_report: the dictionary's items in the order they are
\* evaluated, the first exception ending the call.
GenerateRiskReport(a) ==
    LET hist == ComputeStrategyVar(a, "historical", ReportConfidence)
        cf == ComputeStrategyVar(a, "cornish-fisher", ReportConfidence)
        cvar == ComputeStrategyCvar(a, ReportConfidence)
        dd == ComputeTradeDrawdowns(a)
    IN  IF hist.raised # "" THEN hist
        ELSE IF cf.raised # "" THEN cf
        ELSE IF cvar.raised # "" THEN cvar
        ELSE IF dd.raised # "" THEN dd
        ELSE IF ~a.df.profit.set THEN Outcome("generate_risk_report", "KeyError", NoValue)
        ELSE Outcome("generate_risk_report", "",
                     [kind |-> "report",
                      var_95_historical |-> hist.value,
                      var_95_cornishfisher |-> cf.value,
                      cvar_95 |-> cvar.value,
                      max_drawdown |-> dd.value.max_drawdown,
                      profit_factor |-> ProfitFactor(a.df.profit.v),
                      win_rate |-> WinRate(a.df.profit.v)])

\* ------------------------------------------------------------------ inputs

\* np.concatenate([np.zeros(10), [-3.0], np.ones(10)]) and its mirror image,
\* and np.zeros(50).
LongInput == [i \in 1..(QuietLen + 1 + RecoveryLen) |->
                 IF i <= QuietLen THEN 0 ELSE IF i = QuietLen + 1 THEN -Shock ELSE 1]
ShortInput == [i \in 1..(QuietLen + 1 + RecoveryLen) |->
                 IF i <= QuietLen THEN 0 ELSE IF i = QuietLen + 1 THEN Shock ELSE -1]
FlatInput == [i \in 1..FlatLen |-> 0]

Script(f) == CASE f = "long" -> LongInput
               [] f = "short" -> ShortInput
               [] f = "flat" -> FlatInput
               [] OTHER -> <<>>

Feeds == {"stream", "long", "short", "flat"}

\* (entry_threshold, long_exit_threshold, short_exit_threshold) of a streamed run.
ThresholdConfigs == {<<ENTRY_THRESHOLD, LONG_EXIT_THRESHOLD, SHORT_EXIT_THRESHOLD>>,
                     <<1, 0, 0>>}

\* ------------------------------------------------------------------- state

VARIABLES
    feed,                  \* where the observations come from: a stream or a test input
    window_size,           \* BayesianBondArbStrategy.window_size
    prior_window,          \* BayesianBondArbStrategy.prior_window
    history,               \* BayesianBondArbStrategy.history
    ret,                   \* what the last update_parameters call returned
    entry_threshold,       \* backtest_strategy's parameters
    long_exit_threshold,
    short_exit_threshold,
    position,              \* "FLAT", "LONG" or "SHORT"
    entry_index,
    entry_price,
    trades,                \* the trades closed so far
    closes,                \* how many steps took the position back to FLAT
    calls,                 \* how many times update_parameters was called
    done,                  \* the input sequence has ended
    bt,                    \* a BondArbBacktest object
    other,                 \* a second BondArbBacktest object, run beside bt
    an,                    \* a StrategyRiskAnalyzer object
    req,                   \* the last call on the analyzer: method and arguments
    out,                   \* what that call returned or raised
    reports                \* the reports generate_risk_report returned so far

stratVars == <<feed, window_size, prior_window, history, ret, entry_threshold,
               long_exit_threshold, short_exit_threshold, position, entry_index,
               entry_price, trades, closes, calls, done>>

riskVars == <<an, req, out, reports>>

\* BayesianBondArbStrategy.__init__ and the start of backtest_strategy.
StratInit ==
    /\ feed \in Feeds
    /\ IF feed = "stream"
       THEN /\ window_size \in 2..MaxWindow
            /\ prior_window \in 1..MaxPrior
            /\ \E c \in ThresholdConfigs :
                  /\ entry_threshold = c[1]
                  /\ long_exit_threshold = c[2]
                  /\ short_exit_threshold = c[3]
       ELSE /\ window_size = WINDOW_SIZE
            /\ prior_window = DefaultPriorWindow
            /\ entry_threshold = ENTRY_THRESHOLD
            /\ long_exit_threshold = LONG_EXIT_THRESHOLD
            /\ short_exit_threshold = SHORT_EXIT_THRESHOLD
    /\ history = <<>>
    /\ ret = None
    /\ position = "FLAT"
    /\ entry_index = -1
    /\ entry_price = 0
    /\ trades = <<>>
    /\ closes = 0
    /\ calls = 0
    /\ done = FALSE

\* The observations the next step may bring.
NextInputs ==
    IF feed = "stream"
    THEN IF Len(history) < MaxLen THEN Vals ELSE {}
    ELSE IF Len(history) < Len(Script(feed)) THEN {Script(feed)[Len(history) + 1]} ELSE {}

\* One observation: update_parameters, then the state machine on its z.
Observe ==
    /\ ~done
    /\ \E x \in NextInputs :
          LET u == UpdateParameters(history, window_size, prior_window, x)
              s == StateMachineStep(position, entry_index, entry_price, u.ret,
                                    Len(u.history) - 1, x, entry_threshold,
                                    long_exit_threshold, short_exit_threshold)
          IN  /\ history' = u.history
              /\ ret' = u.ret
              /\ position' = s.position
              /\ entry_index' = s.entry_index
              /\ entry_price' = s.entry_price
              /\ trades' = trades \o s.emitted
              /\ closes' = IF position # "FLAT" /\ s.position = "FLAT"
                           THEN closes + 1 ELSE closes
    /\ calls' = calls + 1
    /\ UNCHANGED <<feed, window_size, prior_window, entry_threshold,
                   long_exit_threshold, short_exit_threshold, done, bt, other>>
    /\ UNCHANGED riskVars

\* The input sequence ends (a test input only at its last element).
EndOfInput ==
    /\ ~done
    /\ feed # "stream" => Len(history) = Len(Script(feed))
    /\ done' = TRUE
    /\ trades' = TradesAtEnd(position, entry_index, entry_price, trades,
                             Len(history) - 1,
                             IF history = <<>> THEN 0 ELSE history[Len(history)])
    /\ UNCHANGED <<feed, window_size, prior_window, history, ret, entry_threshold,
                   long_exit_threshold, short_exit_threshold, position,
                   entry_index, entry_price, closes, calls, bt, other>>
    /\ UNCHANGED riskVars

rollVars == <<bt, other>>

vars == <<stratVars, rollVars, riskVars>>

\* No analyzer in use: one over no trades, nothing called on it.
RiskIdle ==
    /\ an = NewAnalyzer(<<>>, DefaultCapital)
    /\ req = NoRequest /\ out = NoCall /\ reports = <<>>

\* The estimator and the state machine around it.
Init == StratInit /\ bt = NewBacktest(2, <<1, 1>>) /\ other = bt /\ RiskIdle

Next == Observe \/ EndOfInput

Spec == Init /\ [][Next]_vars

\* The rolling-window backtest: construction, load_data, backtest.
RollInit ==
    /\ StratInit /\ feed = "flat"
    /\ \E w \in 2..MaxRollWindow, t \in Thresholds : bt = NewBacktest(w, t)
    /\ other = bt
    /\ RiskIdle

RollLoad ==
    /\ bt.phase = "new"
    /\ \E sp \in SeqsUpTo(Vals, MaxRows) : bt' = LoadData(bt, sp)
    /\ UNCHANGED <<stratVars, other, riskVars>>

RollRow ==
    /\ bt.phase \in {"loaded", "loop"}
    /\ bt.row < Len(bt.spread)
    /\ bt' = BacktestRow(bt)
    /\ UNCHANGED <<stratVars, other, riskVars>>

RollFinish ==
    /\ bt.phase \in {"loaded", "loop"}
    /\ bt.row = Len(bt.spread)
    /\ bt' = BacktestFinish(bt)
    /\ UNCHANGED <<stratVars, other, riskVars>>

RollNext == RollLoad \/ RollRow \/ RollFinish

SpecRoll == RollInit /\ [][RollNext]_vars

\* Two backtests of the same configuration, each on a file of its own, row by
\* row side by side.
PairLoad ==
    /\ bt.phase = "new"
    /\ \E sp \in SeqsUpTo(PairVals, MaxPairRows), sq \in SeqsUpTo(PairVals, MaxPairRows) :
          /\ bt' = LoadData(bt, sp)
          /\ other' = LoadData(other, sq)
    /\ UNCHANGED <<stratVars, riskVars>>

HasRow(b) == b.phase \in {"loaded", "loop"} /\ b.row < Len(b.spread)

PairRow ==
    /\ HasRow(bt) \/ HasRow(other)
    /\ bt' = IF HasRow(bt) THEN BacktestRow(bt) ELSE bt
    /\ other' = IF HasRow(other) THEN BacktestRow(other) ELSE other
    /\ UNCHANGED <<stratVars, riskVars>>

PairFinish ==
    /\ bt.phase \in {"loaded", "loop"} /\ other.phase \in {"loaded", "loop"}
    /\ ~HasRow(bt) /\ ~HasRow(other)
    /\ bt' = BacktestFinish(bt)
    /\ other' = BacktestFinish(other)
    /\ UNCHANGED <<stratVars, riskVars>>

PairNext == PairLoad \/ PairRow \/ PairFinish

SpecPair == RollInit /\ [][PairNext]_vars


\* The risk analyzer: construction over a trade list, then calls on it.
RiskInit ==
    /\ StratInit /\ feed = "flat"
    /\ bt = NewBacktest(2, <<1, 1>>) /\ other = bt
    /\ \E tl \in TradeSeqs(MaxTrades), c \in Capitals : an = NewAnalyzer(tl, c)
    /\ req = NoRequest /\ out = NoCall
    /\ reports = <<>>

\* The caller's trade list, which the analyzer holds, grows by a trade and
\* _process_trades runs over it again.
AppendTrade ==
    /\ Len(an.trades) < MaxTrades
    /\ \E t \in [profit : Profits] :
          an' = ProcessTrades([an EXCEPT !.trades = Append(an.trades, t)])
    /\ req' = Request("_process_trades", "", NoConfidence)
    /\ out' = Outcome("_process_trades", "", NoValue)
    /\ UNCHANGED <<stratVars, rollVars, reports>>

\* compute_strategy_var(method, confidence_level)
ComputeVar ==
    /\ \E m \in Methods, c \in Confidences :
          /\ req' = Request("compute_strategy_var", m, c)
          /\ out' = ComputeStrategyVar(an, m, c)
    /\ UNCHANGED <<stratVars, rollVars, an, reports>>

\* compute_strategy_cvar(confidence_level)
ComputeCvar ==
    /\ \E c \in Confidences :
          /\ req' = Request("compute_strategy_cvar", "", c)
          /\ out' = ComputeStrategyCvar(an, c)
    /\ UNCHANGED <<stratVars, rollVars, an, reports>>

\* A compute_trade_drawdowns that keeps its drawdowns in place of the equity
\* curve.
ComputeDrawdownsInPlace ==
    /\ req' = Request("compute_trade_drawdowns", "", NoConfidence)
    /\ out' = ComputeTradeDrawdowns(an)
    /\ an' = IF an.equity_curve.set
             THEN [an EXCEPT !.equity_curve =
                      Series([k \in 1..Len(an.equity_curve.v) |->
                                 an.equity_curve.v[k] - RunningMax(an.equity_curve.v)[k]])]
             ELSE an
    /\ UNCHANGED <<stratVars, rollVars, reports>>

\* compute_trade_drawdowns()
ComputeDrawdowns ==
    /\ req' = Request("compute_trade_drawdowns", "", NoConfidence)
    /\ out' = ComputeTradeDrawdowns(an)
    /\ UNCHANGED <<stratVars, rollVars, an, reports>>

\* generate_risk_report(), at most MaxReports times.
GenerateReport ==
    /\ Len(reports) < MaxReports
    /\ req' = Request("generate_risk_report", "", NoConfidence)
    /\ out' = GenerateRiskReport(an)
    /\ reports' = Append(reports, out')
    /\ UNCHANGED <<stratVars, rollVars, an>>

RiskNext == AppendTrade \/ ComputeVar \/ ComputeCvar \/ ComputeDrawdowns

\* The analyzer over a fixed trade list: statistics and reports.
ReportNext == ComputeVar \/ ComputeCvar \/ ComputeDrawdowns \/ GenerateReport

SpecReport == RiskInit /\ [][ReportNext]_vars

SpecRisk == RiskInit /\ [][RiskNext]_vars


\* Construction with any configuration, then calls: a streamed strategy of
\* a window_size up to 1 and any prior_window beside an empty analyzer, or an
\* analyzer of any initial_capital beside a strategy on the flat test input.
ConfigInit ==
    /\ \/ /\ feed = "stream"
          /\ window_size \in (-MaxBelowZero)..1
          /\ prior_window \in (-MaxBelowZero)..MaxPrior
          /\ an = NewAnalyzer(<<>>, DefaultCapital)
       \/ /\ feed = "flat"
          /\ window_size = WINDOW_SIZE
          /\ prior_window = DefaultPriorWindow
          /\ \E tl \in TradeSeqs(MaxTrades), c \in ((-MaxBelowZero)..0) \cup Capitals :
                an = NewAnalyzer(tl, c)
    /\ entry_threshold = ENTRY_THRESHOLD
    /\ long_exit_threshold = LONG_EXIT_THRESHOLD
    /\ short_exit_threshold = SHORT_EXIT_THRESHOLD
    /\ history = <<>> /\ ret = None /\ calls = 0 /\ done = FALSE
    /\ position = "FLAT" /\ entry_index = -1 /\ entry_price = 0
    /\ trades = <<>> /\ closes = 0
    /\ bt = NewBacktest(2, <<1, 1>>) /\ other = bt
    /\ req = NoRequest /\ out = NoCall /\ reports = <<>>

\* update_parameters on the strategy, under its loop; compute_trade_drawdowns
\* on the analyzer.
ConfigNext == Observe \/ EndOfInput \/ ComputeDrawdowns

SpecConfig == ConfigInit /\ [][ConfigNext]_vars


\* -------------------------------------------------------------- properties

\* A step of the strategy that consumed an observation.
Observed == calls' = calls + 1

\* The observation the last call was given, and its 0-based index.
LastObs == history[Len(history)]
LastIndex == Len(history) - 1

\* C2: exit rule.  While LONG the position closes at a step iff
\* z >= long_exit_threshold, while SHORT iff z <= short_exit_threshold; a
\* close appends exactly one Trade carrying the stored entry_index and
\* entry_price and the current index and price as exit, and ends FLAT; a step
\* that does not close leaves position, entry_index and entry_price (and the
\* trades) unchanged.
C2_ExitRule ==
    [][(Observed /\ position # "FLAT") =>
         /\ position = "LONG" =>
               (ZGe(ret', long_exit_threshold) <=> position' = "FLAT")
         /\ position = "SHORT" =>
               (ZLe(ret', short_exit_threshold) <=> position' = "FLAT")
         /\ position' \in {"FLAT", position}
         /\ position' = "FLAT" =>
               /\ Len(trades') = Len(trades) + 1
               /\ SubSeq(trades', 1, Len(trades)) = trades
               /\ LET t == trades'[Len(trades')]
                  IN  /\ t.type = (IF position = "LONG" THEN "long" ELSE "short")
                      /\ t.entry_index = entry_index
                      /\ t.entry_price = entry_price
                      /\ t.exit_index = LastIndex'
                      /\ t.exit_price = LastObs'
         /\ position' # "FLAT" =>
               UNCHANGED <<position, entry_index, entry_price, trades>>
      ]_vars

\* A run that closed a long and a short trade, the second at the step just
\* taken.
C2_Witness ==
    /\ Len(trades) = 2
    /\ trades[1].type # trades[2].type
    /\ position = "FLAT"
    /\ trades[2].exit_index = LastIndex

\* C3: profit sign law.  Every trade has a profit field; a long trade's
\* profit is (exit_price - entry_price) - 2*transaction_cost, a short trade's
\* (entry_price - exit_price) - 2*transaction_cost, the prices being the
\* spread values at the entry and exit steps.
C3_ProfitLaw ==
    \A i \in 1..Len(trades) :
        LET t == trades[i]
        IN  /\ "profit" \in DOMAIN t
            /\ t.type \in {"long", "short"}
            /\ t.entry_price = history[t.entry_index + 1]
            /\ t.exit_price = history[t.exit_index + 1]
            /\ t.type = "long" =>
                  t.profit = PriceScale * (t.exit_price - t.entry_price)
                             - 2 * TRANSACTION_COST
            /\ t.type = "short" =>
                  t.profit = PriceScale * (t.entry_price - t.exit_price)
                             - 2 * TRANSACTION_COST

\* A winning long trade and a short trade in one run.
C3_Witness ==
    /\ \E i \in 1..Len(trades) : trades[i].type = "long" /\ trades[i].profit > 0
    /\ \E i \in 1..Len(trades) : trades[i].type = "short"

\* C5: no forced liquidation.  The number of trades always equals the number
\* of close transitions taken, and the end of the input leaves the position
\* and the trades as they were.
C5_NoForcedClose ==
    /\ [](Len(trades) = closes)
    /\ [][(done' /\ ~done) => (position' = position /\ trades' = trades)]_vars

\* The input ended with a position open after an earlier round trip.
C5_Witness == done /\ position # "FLAT" /\ closes = 1 /\ Len(trades) = 1

\* C6: warm-up.  Every call appends its observation to the history, and the
\* call returns the sentinel exactly when the history it leaves is shorter
\* than window_size + 2.
C6_WarmUp ==
    /\ [](/\ Len(history) = calls
          /\ calls > 0 => (ret.none <=> Len(history) < window_size + 2))
    /\ [][Observed => SubSeq(history', 1, Len(history)) = history]_vars

\* The first call past the warm-up of a streamed run.
C6_Witness == calls = window_size + 2 /\ ~ret.none /\ feed = "stream"

\* C7: sigma_post > 0 in every triple update_parameters returns.
C7_SigmaPositive == ~ret.none => SigmaPositive(ret)

AllZero(h) == \A i \in 1..Len(h) : h[i] = 0

\* C8: on an all-zero input every z after the warm-up is 0 with
\* sigma_post > 0, the position stays FLAT and no trade is emitted.
C8_AllZero ==
    AllZero(history) =>
        /\ ~ret.none => (ZIsZero(ret) /\ SigmaPositive(ret))
        /\ position = "FLAT"
        /\ trades = <<>>

\* C9: the single-shock inputs of the tests.  The low shock ends with at
\* least one trade, all long; the high shock with at least one, all short.
C9_SingleShock ==
    /\ (done /\ feed = "long") =>
          /\ Len(trades) >= 1
          /\ \A i \in 1..Len(trades) : trades[i].type = "long"
    /\ (done /\ feed = "short") =>
          /\ Len(trades) >= 1
          /\ \A i \in 1..Len(trades) : trades[i].type = "short"


\* z = (spread - rolling_mean)/rolling_std of a row compared with the
\* threshold t > 0: z >= t and z <= -t (nan for a nan or zero std).
RollZGe(mean, std, x, t) ==
    ~std.nan /\ std.var_num > 0 /\ Excess(mean, x) > 0 /\ CmpBand(mean, std, x, t) >= 0

RollZLe(mean, std, x, t) ==
    ~std.nan /\ std.var_num > 0 /\ Excess(mean, x) < 0 /\ CmpBand(mean, std, x, t) >= 0

\* C1: entry rule.  Every step taken while FLAT opens SHORT if
\* z >= entry_threshold, LONG if z <= -entry_threshold, and otherwise stays
\* FLAT; z on the threshold itself opens.
C1_EntryRule ==
    [][(bt'.row = bt.row + 1 /\ bt.pos = 0) =>
         LET i == bt'.row
             mean == bt.rolling_mean[i]
             std == bt.rolling_std[i]
             x == bt.spread[i]
         IN  bt'.pos = IF RollZGe(mean, std, x, bt.threshold) THEN -1
                       ELSE IF RollZLe(mean, std, x, bt.threshold) THEN 1
                       ELSE 0
      ]_vars

\* C4: one position at a time.  pos is 0, 1 or -1 and starts 0; a row that
\* starts with a position open ends with the same position or with none, so
\* a change of direction passes through a row that ends FLAT.
C4_OnePosition ==
    /\ bt.pos \in {-1, 0, 1}
    /\ bt.positions # <<>> =>
          /\ bt.positions[1] = 0
          /\ bt.positions[Len(bt.positions)] = bt.pos
    /\ bt.positions = <<>> => bt.pos = 0
    /\ \A i \in 1..(Len(bt.positions) - 1) :
          bt.positions[i] # 0 => bt.positions[i + 1] \in {0, bt.positions[i]}

\* A backtest that was long, then flat, then short, or the other way round.
C4_Witness ==
    \E i, j \in 1..Len(bt.positions) :
        i < j /\ bt.positions[i] # 0 /\ bt.positions[j] = -bt.positions[i]

\* The two files hold the same first i rows.
Agree(i) ==
    /\ i <= Len(bt.spread) /\ i <= Len(other.spread)
    /\ SubSeq(bt.spread, 1, i) = SubSeq(other.spread, 1, i)

\* C10: no look-ahead.  For two inputs that agree on rows 0..i the rolling
\* mean and std of row i, the position after row i, and the pnl and the
\* cumulative pnl booked at row i are the same; the pnl of a row is the
\* position held before the row times the row's change of spread.
C10_NoLookAhead ==
    \A i \in 1..Len(bt.spread) :
        /\ Agree(i) =>
              /\ bt.rolling_mean[i] = other.rolling_mean[i]
              /\ bt.rolling_std[i] = other.rolling_std[i]
              /\ (i <= Len(bt.positions) /\ i <= Len(other.positions)) =>
                    bt.positions[i] = other.positions[i]
              /\ (bt.phase = "done" /\ other.phase = "done") =>
                    /\ bt.pnl[i] = other.pnl[i]
                    /\ bt.cum_pnl[i] = other.cum_pnl[i]
        /\ bt.phase = "done" =>
              bt.pnl[i] = IF i = 1 THEN 0
                          ELSE bt.positions[i - 1] * (bt.spread[i] - bt.spread[i - 1])

\* Two finished backtests whose files part after a row that opened a
\* position, which the later, differing row then made or lost money on.
C10_Witness ==
    /\ bt.phase = "done" /\ other.phase = "done"
    /\ \E i \in 1..(Len(bt.spread) - 1) :
          /\ Agree(i) /\ i + 1 <= Len(other.spread) /\ ~Agree(i + 1)
          /\ bt.positions[i] # 0
          /\ bt.pnl[i + 1] # other.pnl[i + 1]

\* z of a row compared with 0: z >= 0 and z <= 0 (nan for a nan or zero std).
RollZNonNeg(mean, std, x) == ~std.nan /\ std.var_num > 0 /\ Excess(mean, x) >= 0

RollZNonPos(mean, std, x) == ~std.nan /\ std.var_num > 0 /\ Excess(mean, x) <= 0

\* The position the state-machine contract gives on z, the entry threshold
\* being t and both exit thresholds 0 (the rolling mean).
ContractPos(pos, mean, std, x, t) ==
    IF pos = 0
    THEN IF RollZGe(mean, std, x, t) THEN -1
         ELSE IF RollZLe(mean, std, x, t) THEN 1
         ELSE 0
    ELSE IF pos = 1 THEN (IF RollZNonNeg(mean, std, x) THEN 0 ELSE 1)
    ELSE (IF RollZNonPos(mean, std, x) THEN 0 ELSE -1)

\* C11: the rolling-window backtest follows the state-machine contract on
\* z = (spread - rolling_mean)/rolling_std: every row takes the position the
\* contract takes on that z (SHORT opened exactly when FLAT and
\* z >= threshold, LONG exactly when FLAT and z <= -threshold, LONG closed
\* exactly when z >= 0, SHORT exactly when z <= 0), so that the two variants
\* give the same position sequence on the same z-scores.
C11_SameContract ==
    [][bt'.row = bt.row + 1 =>
         LET i == bt'.row
         IN  bt'.pos = ContractPos(bt.pos, bt.rolling_mean[i], bt.rolling_std[i],
                                   bt.spread[i], bt.threshold)
      ]_vars

\* The profit of the k-th trade and the sum of the first k profits.
ProfitOf(k) == an.trades[k].profit
ProfitSum(k) == SeqSum([j \in 1..k |-> an.trades[j].profit])

UnknownMethodCall ==
    /\ req.op = "compute_strategy_var"
    /\ req.method \notin {"historical", "gaussian", "cornish-fisher"}

\* C13: compute_strategy_var with an unknown method, at any confidence
\* level, raises the invalid-method ValueError, returns no value, and leaves
\* the trades, the returns and the equity curve as they were.
C13_UnknownMethod ==
    /\ [](UnknownMethodCall => (out.raised = InvalidMethod /\ out.value = NoValue))
    /\ [][UnknownMethodCall' =>
             /\ an'.trades = an.trades
             /\ an'.returns = an.returns
             /\ an'.equity_curve = an.equity_curve
         ]_vars

\* An unknown method was asked of an analyzer over two trades and raised.
C13_Witness ==
    /\ UnknownMethodCall
    /\ out.raised = InvalidMethod
    /\ Len(an.trades) = 2

\* The exceptions that answer a wrong argument: an unknown method, a
\* confidence level outside [0, 1].
ArgumentErrors == {InvalidMethod, PercentileRange}

Zero == [kind |-> "number", num |-> 0, den |-> 1]

\* C14: on an analyzer built over no trades every statistic and the report
\* complete without raising (a wrong argument aside), and the report's
\* win_rate and profit_factor are 0.
C14_EmptyTradeSet ==
    (an.trades = <<>> /\ req # NoRequest) =>
        /\ out.raised \in {""} \cup ArgumentErrors
        /\ out.raised = "" => out.value # NoValue
        /\ req.op = "generate_risk_report" =>
              /\ out.value.kind = "report"
              /\ out.value.win_rate = Zero
              /\ out.value.profit_factor = Zero

\* The sum of the positive profits, and of the negative ones, of the trades.
Gains == SeqSum([k \in 1..Len(an.trades) |->
                    IF ProfitOf(k) > 0 THEN ProfitOf(k) ELSE 0])
Losses == SeqSum([k \in 1..Len(an.trades) |->
                     IF ProfitOf(k) < 0 THEN ProfitOf(k) ELSE 0])

\* C15: the report over at least one trade gives win_rate as the fraction of
\* trades with profit > 0, in [0, 1], and profit_factor as the sum of the
\* positive profits over the absolute sum of the negative ones: a number
\* >= 0, and 0 when both sums are 0.
C15_WinRateProfitFactor ==
    (req.op = "generate_risk_report" /\ an.trades # <<>>) =>
        /\ out.raised = ""
        /\ LET w == out.value.win_rate
               f == out.value.profit_factor
           IN  /\ w.kind = "number"
               /\ w.num = Cardinality({k \in 1..Len(an.trades) : ProfitOf(k) > 0})
               /\ w.den = Len(an.trades)
               /\ 0 <= w.num /\ w.num <= w.den
               /\ f.kind = "number"
               /\ f.num >= 0 /\ f.den > 0
               /\ (Gains = 0 /\ Losses = 0) => f.num = 0
               /\ Losses # 0 => f.num * (-Losses) = Gains * f.den

\* A drawdown that is a number <= 0.
DdNonPositive(d) == ~d.nan /\ d.num <= 0

\* C16: drawdown non-positivity.  Whenever compute_trade_drawdowns returns,
\* every drawdown (equity - running_max)/running_max is <= 0 and so is
\* max_drawdown, also when the running maximum of the equity is zero or
\* negative.
C16_DrawdownNonPositive ==
    (req.op = "compute_trade_drawdowns" /\ out.raised = "") =>
        /\ \A k \in 1..Len(out.value.drawdowns) : DdNonPositive(out.value.drawdowns[k])
        /\ DdNonPositive(out.value.max_drawdown)

\* The pairs (k, k+1) at which a drawdown ends: below 0 at k, 0 at k+1.
RecoveryPairs(d) ==
    {k \in 1..(Len(d) - 1) : DdNegative(d[k]) /\ ~d[k + 1].nan /\ d[k + 1].num = 0}

\* C17: drawdown transition counting.  On an equity curve that stays above
\* 0, compute_trade_drawdowns returns as recovery_time the fraction of
\* consecutive pairs (i, i+1) that go from drawdown < 0 to drawdown = 0,
\* which is 0 when there are fewer than two equity points, and as
\* drawdown_duration the fraction of indices with drawdown < 0.
C17_TransitionCounting ==
    (/\ req.op = "compute_trade_drawdowns" /\ out.raised = ""
     /\ \A k \in 1..Len(an.equity_curve.v) : an.equity_curve.v[k] > 0) =>
        LET d == out.value.drawdowns
            n == Len(d)
            r == out.value.recovery_time
            u == out.value.drawdown_duration
        IN  /\ n = Len(an.trades)
            /\ n < 2 => r.num = 0
            /\ n >= 2 => r.num * (n - 1) = Cardinality(RecoveryPairs(d)) * r.den
            /\ u.num * n = Cardinality({k \in 1..n : DdNegative(d[k])}) * u.den

\* The confidence levels in [0, 1] among those a caller passes.
InRange == {c \in Confidences : 0 <= c[1] /\ c[1] <= c[2]}

\* c is a lower confidence level than d.
Lower(c, d) == c[1] * d[2] < d[1] * c[2]

\* The historical VaR of the analyzer at confidence c, as a multiple of
\* 1/(initial_capital * scale) for a scale that c[2] divides.
VarAt(c, scale) == HistoricalVar(an, c).value.num * (scale \div c[2])

\* C18: VaR monotonicity.  Over a non-empty sample the historical VaR is
\* non-increasing in the confidence level: whenever compute_strategy_var
\* returned the historical VaR at some level, the VaR at every lower level
\* is at least that value and the VaR at every higher level at most.
C18_VarMonotone ==
    (req.op = "compute_strategy_var" /\ req.method = "historical" /\ out.raised = "") =>
        \A d \in InRange :
            LET c == req.confidence
                scale == c[2] * d[2]
            IN  /\ out = HistoricalVar(an, c)
                /\ Lower(c, d) => VarAt(d, scale) <= out.value.num * d[2]
                /\ Lower(d, c) => VarAt(d, scale) >= out.value.num * d[2]

\* The VaR was taken at 0.75 over three returns, with a value strictly
\* between two of the returns and strictly below the VaR at 0.5.
C18_Witness ==
    /\ req.op = "compute_strategy_var" /\ req.method = "historical"
    /\ req.confidence = <<3, 4>> /\ out.raised = ""
    /\ Len(an.trades) = 3
    /\ \A k \in 1..3 : out.value.num # ProfitOf(k) * 4
    /\ VarAt(<<1, 2>>, 4) > out.value.num

\* A call of one of the statistics or of the report has just been made.
StatisticCall ==
    /\ req' # req \/ out' # out \/ reports' # reports
    /\ req'.op \in {"compute_strategy_var", "compute_strategy_cvar",
                    "compute_trade_drawdowns", "generate_risk_report"}

C20_FailFast ==
    /\ calls > 0 => (window_size > 0 /\ prior_window > 0)
    /\ req # NoRequest => an.initial_capital > 0

\* C21: bounded history.  After any number of update_parameters calls the
\* history holds at most window_size + prior_window observations.
C21_BoundedHistory == Len(history) <= window_size + prior_window

\* C22: segment indices.  In every update that returns a triple, n being the
\* length of the history: the window segment is the last window_size
\* entries, the new observation its last; the prior segment is
\* history[max(0, n - P - W) : n - W], non-empty, of exactly min(P, n - W)
\* entries; the prior segment ends where the window begins and the two share
\* no index.
C22_Segments ==
    ~ret.none =>
        LET n == Len(history)
            W == window_size
            P == prior_window
            start == Max(0, n - P - W)
            prior == GetPriorData(history, W, P)
            window == GetWindowData(history, W)
            prior_idx == start..(start + Len(prior) - 1)
            window_idx == (n - Len(window))..(n - 1)
        IN  /\ n >= W + 2
            /\ Len(window) = W
            /\ \A i \in 1..W : window[i] = history[n - W + i]
            /\ window[W] = LastObs
            /\ Len(prior) = Min(P, n - W)
            /\ Len(prior) >= 1
            /\ \A i \in 1..Len(prior) : prior[i] = history[start + i]
            /\ start + Len(prior) = n - W
            /\ prior_idx \cap window_idx = {}
            /\ prior_idx \cup window_idx = start..(n - 1)

\* A streamed update past the warm-up whose prior segment starts after the
\* first observation and whose prior and window hold different values.
C22_Witness ==
    /\ feed = "stream" /\ ~ret.none
    /\ Len(history) - prior_window - window_size > 0
    /\ prior_window > 1
    /\ GetPriorData(history, window_size, prior_window)[1] # LastObs
    /\ history[1] # GetPriorData(history, window_size, prior_window)[1]

=============================================================================
